---- MODULE Spec2Model ----
(***************************************************************************)
(* A model of the propagation engine of the `reactivity` crate             *)
(* (src/src/sync.rs): SyncSignal cells, the dirty-counting protocol of     *)
(* Reactive::promise / UpdatePromise::resolve, and the caller that holds   *)
(* and releases the tokens returned by send.                               *)
(*                                                                         *)
(* Spec is the engine driven by one caller, a call being one step.  SpecC  *)
(* is the engine shared by threads, a step being one Mutex::lock() or the  *)
(* use of one guard.                                                       *)
(*                                                                         *)
(* A SyncSignal handle is five Arcs; clone() copies the five Arcs, so a    *)
(* handle and every clone of it denote the same cell.  A cell is a number  *)
(* in Sig, and deep_clone allocates a new one.                             *)
(***************************************************************************)
EXTENDS Integers, Sequences, FiniteSets, TLC

\* ------------------------------------------------------------- bounds
MaxSig == 5        \* cells that can be allocated
MaxVal == 2        \* values passed to new and send are 0..MaxVal
MaxRecv == 3       \* length of one receivers list
MaxHeld == 2       \* token lists the caller keeps at the same time
MaxExtra == 1      \* calls besides resume, in-order drop and a send on an
                   \* independent signal by a caller that holds no token
NThreads == 2      \* threads of the shared variant
MaxCalls == 1      \* send, get and add_receiver calls of one thread

Sig == 1..MaxSig

Threads == 1..NThreads

\* the four Mutexes of a cell
Mutexes == {"inner", "receivers", "suspended", "dirty"}

VARIABLES
    nSig,        \* cells 1..nSig are allocated
    inner,       \* SyncSignal.inner: the value of each cell
    generator,   \* SyncSignal.generator: None, or the processor of the cell
    receivers,   \* SyncSignal.receivers: the registry, a sequence of cells
    suspended,   \* SyncSignal.suspended
    dirty,       \* SyncSignal.dirty (usize; d < 0 stands for 2^64 + d)
    held,        \* the caller's live token lists (Vec<UpdatePromise>)
    status,      \* "ok", or how the thread of control ended
    build,       \* whether the build checks integer overflow, once it matters
    log,         \* the effect calls since the current batch of sends began
    srcs,        \* the sources whose sends propagated in the current batch
    hist,        \* what the caller has done besides send and in-order drop
    graves,      \* for each dropped token, the number of resolve() runs it had
    swallowed,   \* cells that had a send discarded while suspended
    origin,      \* origin[c] = s when c was made by s.deep_clone(), else 0
    extra,       \* the calls counted by MaxExtra so far
    lock,        \* lock[k][s]: the thread holding Mutex k of cell s, or 0
    stack,       \* stack[t]: the call frames of thread t, innermost last
    mine,        \* mine[t]: the Vec<UpdatePromise> thread t holds
    todo,        \* todo[t]: the calls thread t has still to make
    sent         \* sent[t]: the cells thread t has called send on, in order

vars == <<nSig, inner, generator, receivers, suspended, dirty, held, status,
          build, log, srcs, hist, graves, swallowed, origin, extra,
          lock, stack, mine, todo, sent>>

callerVars == <<held, build, srcs, hist, graves, swallowed, origin, extra>>

threadVars == <<lock, stack, mine, todo, sent>>

cellVars == <<nSig, inner, generator, receivers, suspended, dirty>>

Alloc == 1..nSig

\* ----------------------------------------------------- pure helpers
RECURSIVE SumSeq(_)
SumSeq(q) == IF q = <<>> THEN 0 ELSE Head(q) + SumSeq(Tail(q))

Range(q) == {q[i] : i \in 1..Len(q)}

RemoveAt(q, j) == [i \in 1..(Len(q) - 1) |-> IF i < j THEN q[i] ELSE q[i + 1]]

\* generator: None
NoGen == [some |-> FALSE, deps |-> <<>>, mul |-> 0]

\* generator: Some(closure).  The processor closes over the cells in deps
\* and computes mul * (the sum of their values), each read by get().
Gen(deps, mul) == [some |-> TRUE, deps |-> deps, mul |-> mul]

\* processor(): reads each dependency with get()
processor(g, in) == g.mul * SumSeq([i \in 1..Len(g.deps) |-> in[g.deps[i]]])

\* The thread of control inside one call: the cells it writes, what it
\* returns (ret), the effect calls it makes, and how it ended.
Machine(ovf) ==
    [inner |-> inner, dirty |-> dirty, log |-> log, status |-> status,
     ret |-> <<>>, ovf |-> ovf, under |-> FALSE]

\* (mutant) promise that forgets the increment
increase_dirty_none(sig, m) == m

\* (mutant) promise that counts its token twice
increase_dirty_twice(sig, m) == [m EXCEPT !.dirty[sig] = @ + 2]

\* Dirty::increase_dirty
increase_dirty(sig, m) == [m EXCEPT !.dirty[sig] = @ + 1]

\* (mutant) a flag in place of the counter: any release clears it
decrease_dirty_clear(sig, m) == [m EXCEPT !.dirty[sig] = 0]

\* Dirty::decrease_dirty.  *dirty -= 1 on 0 panics in a build with overflow
\* checks and wraps to usize::MAX (here -1) in a build without.
decrease_dirty(sig, m) ==
    IF m.dirty[sig] = 0
    THEN IF m.ovf = "debug"
         THEN [m EXCEPT !.status = "panic_underflow", !.under = TRUE]
         ELSE [m EXCEPT !.dirty[sig] = -1, !.under = TRUE]
    ELSE [m EXCEPT !.dirty[sig] = @ - 1]

\* Reactive::promise, Dirty::receiver_promise and the flat_map over a
\* registry.  lk is the set of cells whose receivers lock this thread holds:
\* parking_lot's Mutex is not reentrant, so locking one of them again blocks
\* the thread for ever.
RECURSIVE flat_map_promise(_, _, _, _)

\* (mutant) a walk that notices a cell it is already inside and passes it by
receiver_promise_checked(sig, lk, m) ==
    IF sig \in lk
    THEN m
    ELSE flat_map_promise(receivers[sig], 1, lk \cup {sig}, m)

receiver_promise(sig, lk, m) ==
    IF sig \in lk
    THEN [m EXCEPT !.status = "deadlock"]
    ELSE flat_map_promise(receivers[sig], 1, lk \cup {sig}, m)

\* (mutant) promise that arms the receiver alone and leaves what the
\* receiver notifies to the wave of its own react
promise_shallow(sig, lk, m) ==
    LET m1 == increase_dirty(sig, m)
    IN  [m1 EXCEPT !.ret = Append(@, sig)]

\* (mutant) promise that puts its own token behind those of its receivers
promise_last(sig, lk, m) ==
    LET m1 == increase_dirty(sig, m)
        m2 == receiver_promise(sig, lk, m1)
    IN  [m2 EXCEPT !.ret = Append(@, sig)]

promise(sig, lk, m) ==
    LET m1 == increase_dirty(sig, m)
        m2 == [m1 EXCEPT !.ret = Append(@, sig)]
    IN  receiver_promise(sig, lk, m2)

flat_map_promise(rs, i, lk, m) ==
    IF i > Len(rs) \/ m.status # "ok"
    THEN m
    ELSE flat_map_promise(rs, i + 1, lk, promise(rs[i], lk, m))

\* (mutant) send that does not look at the suspended flag
send_ungated(sig, value, m) ==
    receiver_promise(sig, {}, [m EXCEPT !.inner[sig] = value, !.ret = <<>>])

\* SyncSignal::send: the tokens are left in ret
send(sig, value, m) ==
    LET m1 == [m EXCEPT !.inner[sig] = value, !.ret = <<>>]
    IN  IF suspended[sig]
        THEN m1
        ELSE receiver_promise(sig, {}, m1)

\* the counters d of the receivers of sig, in registration order
Armed(sig, d) == [i \in 1..Len(receivers[sig]) |-> d[receivers[sig][i]]]

\* what is seen while effect(&s, &x) runs: the cell, what get() on it
\* returns, the new value, and the counters of its receivers
Seen(sig, value, d, x) ==
    [sig |-> sig, before |-> value, now |-> x, armed |-> Armed(sig, d)]

\* The generator closure of driven: processor, then effect(&s, &x), then x.
\* The effect is observed as a log entry.
run_generator(sig, m) ==
    LET x == processor(generator[sig], m.inner)
    IN  [m EXCEPT !.log = Append(@, Seen(sig, m.inner[sig], m.dirty, x)),
                  !.ret = x]

\* (mutant) react that stores and announces the value before the effect runs
react_store_first(sig, m) ==
    IF ~generator[sig].some
    THEN [m EXCEPT !.status = "panic_unwrap", !.ret = <<>>]
    ELSE LET x == processor(generator[sig], m.inner)
             m1 == send(sig, x, m)
         IN  [m1 EXCEPT !.log = Append(@, Seen(sig, m1.inner[sig], m1.dirty, x))]

\* Reactive::react
react(sig, m) ==
    IF ~generator[sig].some
    THEN [m EXCEPT !.status = "panic_unwrap", !.ret = <<>>]
    ELSE LET m1 == run_generator(sig, m)
         IN  send(sig, m1.ret, m1)

\* UpdatePromise::resolve; the Vec that react returns is a temporary, dropped
\* at the end of the statement, element by element from the front.
RECURSIVE resolve(_, _), drop_vec(_, _, _)
\* (mutant) resolve that reacts on a counter of 1 instead of 0
resolve_off_by_one(sig, m) ==
    IF m.status # "ok" THEN m
    ELSE LET m1 == decrease_dirty(sig, m)
         IN  IF m1.status # "ok" THEN m1
             ELSE IF m1.dirty[sig] = 1
                  THEN LET m2 == react(sig, m1)
                       IN  drop_vec(m2.ret, 1, [m2 EXCEPT !.ret = <<>>])
                  ELSE m1

resolve(sig, m) ==
    IF m.status # "ok" THEN m
    ELSE LET m1 == decrease_dirty(sig, m)
         IN  IF m1.status # "ok" THEN m1
             ELSE IF m1.dirty[sig] = 0
                  THEN LET m2 == react(sig, m1)
                       IN  drop_vec(m2.ret, 1, [m2 EXCEPT !.ret = <<>>])
                  ELSE m1

drop_vec(toks, i, m) ==
    IF i > Len(toks) \/ m.status # "ok"
    THEN m
    ELSE drop_vec(toks, i + 1, resolve(toks[i], m))

\* ------------------------------------------------------------ Init
\* The graphs of the crate's test and of its documentation, as built by
\* new, driven and add_receiver before the first send.
Blank == [s \in Sig |-> 0]

\* lib.rs tests::test: x = 1, doubled, tripled, and their sum
Diamond ==
    [n |-> 4,
     inner |-> [Blank EXCEPT ![1] = 1, ![2] = 2, ![3] = 3, ![4] = 5],
     generator |-> [[s \in Sig |-> NoGen] EXCEPT ![2] = Gen(<<1>>, 2),
                        ![3] = Gen(<<1>>, 3), ![4] = Gen(<<2, 3>>, 1)],
     receivers |-> [[s \in Sig |-> <<>>] EXCEPT ![1] = <<2, 3>>,
                        ![2] = <<4>>, ![3] = <<4>>],
     origin |-> Blank]

\* a = 1, b = 2, sum = a + b
Sum ==
    [n |-> 3,
     inner |-> [Blank EXCEPT ![1] = 1, ![2] = 2, ![3] = 3],
     generator |-> [[s \in Sig |-> NoGen] EXCEPT ![3] = Gen(<<1, 2>>, 1)],
     receivers |-> [[s \in Sig |-> <<>>] EXCEPT ![1] = <<3>>, ![2] = <<3>>],
     origin |-> Blank]

\* x = 1, y = 2 * x, z = 2 * y
Chain ==
    [n |-> 3,
     inner |-> [Blank EXCEPT ![1] = 1, ![2] = 2, ![3] = 4],
     generator |-> [[s \in Sig |-> NoGen] EXCEPT ![2] = Gen(<<1>>, 2),
                        ![3] = Gen(<<2>>, 2)],
     receivers |-> [[s \in Sig |-> <<>>] EXCEPT ![1] = <<2>>, ![2] = <<3>>],
     origin |-> Blank]

\* x = 1, y = 2 * x, c = x.deep_clone()
Cloned ==
    [n |-> 3,
     inner |-> [Blank EXCEPT ![1] = 1, ![2] = 2, ![3] = 1],
     generator |-> [[s \in Sig |-> NoGen] EXCEPT ![2] = Gen(<<1>>, 2)],
     receivers |-> [[s \in Sig |-> <<>>] EXCEPT ![1] = <<2>>, ![3] = <<2>>],
     origin |-> [Blank EXCEPT ![3] = 1]]

Graphs == {Diamond, Sum, Chain, Cloned}

Init ==
    /\ \E g \in Graphs :
         /\ nSig = g.n
         /\ inner = g.inner
         /\ generator = g.generator
         /\ receivers = g.receivers
         /\ origin = g.origin
    /\ suspended = [s \in Sig |-> FALSE]
    /\ dirty = [s \in Sig |-> 0]
    /\ held = <<>>
    /\ status = "ok"
    /\ build = "unknown"
    /\ log = <<>>
    /\ srcs = {}
    /\ hist = {}
    /\ graves = {}
    /\ swallowed = {}
    /\ extra = 0
    /\ lock = [k \in Mutexes |-> [s \in Sig |-> 0]]
    /\ stack = [t \in Threads |-> <<>>]
    /\ mine = [t \in Threads |-> <<>>]
    /\ todo = [t \in Threads |-> 0]
    /\ sent = [t \in Threads |-> <<>>]

\* --------------------------------------------------------- actions
Builds == IF build = "unknown" THEN {"debug", "release"} ELSE {build}

\* What a call leaves behind in the cells
Commit(m) ==
    /\ inner' = m.inner
    /\ dirty' = m.dirty
    /\ status' = m.status
    /\ build' = IF m.under THEN m.ovf ELSE build

Busy == held # <<>>

Mid(tags) == IF Busy THEN tags \cup {"mid"} ELSE tags

\* some send has been made
Sent == "sent" \in hist

\* A call made by a caller that holds no token closes the record of the
\* last batch
Closed ==
    /\ log' = IF Busy THEN log ELSE <<>>
    /\ srcs' = IF Busy THEN srcs ELSE {}

Late(tags) == IF Sent THEN Mid(tags) \cup {"late"} ELSE Mid(tags)

Spend(cond) ==
    /\ cond => extra < MaxExtra
    /\ extra' = IF cond THEN extra + 1 ELSE extra

Tokens(ret) == [i \in 1..Len(ret) |-> [signal |-> ret[i], n |-> 0]]

\* SyncSignal::new(value)
new(value) ==
    [inner |-> value, generator |-> NoGen, receivers |-> <<>>,
     suspended |-> FALSE, dirty |-> 0]

\* (mutant) driven that leaves the value unseeded until the first react
driven_unseeded(deps, mul) ==
    [inner |-> 0, generator |-> Gen(deps, mul),
     receivers |-> <<>>, suspended |-> FALSE, dirty |-> 0]

\* SyncSignal::driven(processor, effect): the processor runs once to seed
\* the value, the effect is only stored in the generator
driven(deps, mul) ==
    [inner |-> processor(Gen(deps, mul), inner), generator |-> Gen(deps, mul),
     receivers |-> <<>>, suspended |-> FALSE, dirty |-> 0]

\* (mutant) deep_clone that starts the copy with an empty registry
deep_clone_bare(s) ==
    [inner |-> inner[s], generator |-> generator[s], receivers |-> <<>>,
     suspended |-> suspended[s], dirty |-> dirty[s]]

\* SyncSignal::deep_clone: new Arcs around copies of the value, the registry,
\* the flag and the counter; the generator Arc is shared
deep_clone(s) ==
    [inner |-> inner[s], generator |-> generator[s], receivers |-> receivers[s],
     suspended |-> suspended[s], dirty |-> dirty[s]]

\* SyncSignal::add_receiver: push on the registry
add_receiver(s, r) == [receivers EXCEPT ![s] = Append(@, r)]

\* SyncSignal::suspend
suspend(s) == [suspended EXCEPT ![s] = TRUE]

\* SyncSignal::resume
resume(s) == [suspended EXCEPT ![s] = FALSE]

\* a freshly constructed cell takes the next free number
Allocate(cell) ==
    /\ nSig < MaxSig
    /\ nSig' = nSig + 1
    /\ inner' = [inner EXCEPT ![nSig + 1] = cell.inner]
    /\ generator' = [generator EXCEPT ![nSig + 1] = cell.generator]
    /\ receivers' = [receivers EXCEPT ![nSig + 1] = cell.receivers]
    /\ suspended' = [suspended EXCEPT ![nSig + 1] = cell.suspended]
    /\ dirty' = [dirty EXCEPT ![nSig + 1] = cell.dirty]

CallNew(v) ==
    /\ status = "ok"
    /\ UNCHANGED threadVars
    /\ Spend(TRUE)
    /\ Allocate(new(v))
    /\ hist' = Mid(hist)
    /\ Closed
    /\ UNCHANGED <<held, status, build, graves, swallowed, origin>>

CallDriven(deps, mul) ==
    /\ status = "ok"
    /\ UNCHANGED threadVars
    /\ Spend(TRUE)
    /\ Allocate(driven(deps, mul))
    /\ hist' = Mid(hist)
    /\ Closed
    /\ UNCHANGED <<held, status, build, graves, swallowed, origin>>

\* s.add_receiver(r): any cell, no cycle check
CallAddReceiver(s, r) ==
    /\ status = "ok"
    /\ UNCHANGED threadVars
    /\ s \in Alloc /\ r \in Alloc
    /\ Len(receivers[s]) < MaxRecv
    /\ Spend(TRUE)
    /\ receivers' = add_receiver(s, r)
    /\ hist' = Late(hist)
    /\ Closed
    /\ UNCHANGED <<nSig, inner, generator, suspended, dirty, held, status, build,
                   graves, swallowed, origin>>

CallSuspend(s) ==
    /\ status = "ok"
    /\ UNCHANGED threadVars
    /\ s \in Alloc
    /\ Spend(TRUE)
    /\ suspended' = suspend(s)
    /\ hist' = Mid(hist) \cup {"gate"}
    /\ Closed
    /\ UNCHANGED <<nSig, inner, generator, receivers, dirty, held, status, build,
                   graves, swallowed, origin>>

CallResume(s) ==
    /\ status = "ok"
    /\ UNCHANGED threadVars
    /\ s \in Alloc
    /\ suspended' = resume(s)
    /\ hist' = Mid(hist)
    /\ Closed
    /\ UNCHANGED <<nSig, inner, generator, receivers, dirty, held, status, build,
                   graves, swallowed, origin, extra>>

CallDeepClone(s) ==
    /\ status = "ok"
    /\ UNCHANGED threadVars
    /\ s \in Alloc
    /\ Spend(TRUE)
    /\ Allocate(deep_clone(s))
    /\ origin' = [origin EXCEPT ![nSig + 1] = s]
    /\ hist' = Late(hist)
    /\ Closed
    /\ UNCHANGED <<held, status, build, graves, swallowed>>

\* s.send(v), the caller keeping the returned Vec
CallSend(s, v) ==
    /\ status = "ok"
    /\ UNCHANGED threadVars
    /\ s \in Alloc
    /\ Len(held) < MaxHeld
    /\ Spend(Busy \/ generator[s].some)
    /\ LET m0 == Machine("debug")
           m == send(s, v, IF Busy THEN m0 ELSE [m0 EXCEPT !.log = <<>>])
       IN  /\ Commit(m)
           /\ log' = m.log
           /\ held' = IF m.status = "ok" /\ m.ret # <<>>
                      THEN Append(held, Tokens(m.ret)) ELSE held
           /\ srcs' = (IF Busy THEN srcs ELSE {}) \cup (IF suspended[s] THEN {} ELSE {s})
           /\ swallowed' = IF suspended[s] THEN swallowed \cup {s} ELSE swallowed
           /\ hist' = Mid(hist) \cup {"sent"}
                        \cup (IF generator[s].some THEN {"sendDerived"} ELSE {})
                        \cup (IF Busy /\ graves # {} THEN {"resent"} ELSE {})
    /\ UNCHANGED <<nSig, generator, receivers, suspended, graves, origin>>

\* s.react() called by the caller itself, which keeps the returned Vec
CallReact(s) ==
    /\ status = "ok"
    /\ UNCHANGED threadVars
    /\ s \in Alloc
    /\ Len(held) < MaxHeld
    /\ Spend(TRUE)
    /\ LET m0 == Machine("debug")
           m == react(s, IF Busy THEN m0 ELSE [m0 EXCEPT !.log = <<>>])
       IN  /\ Commit(m)
           /\ log' = m.log
           /\ held' = IF m.status = "ok" /\ m.ret # <<>>
                      THEN Append(held, Tokens(m.ret)) ELSE held
    /\ srcs' = IF Busy THEN srcs ELSE {}
    /\ hist' = Mid(hist) \cup {"react"}
    /\ UNCHANGED <<nSig, generator, receivers, suspended, graves, swallowed,
                   origin>>

\* UpdatePromise::from_signal(&s): a token made without increase_dirty
CallFromSignal(s) ==
    /\ status = "ok"
    /\ UNCHANGED threadVars
    /\ s \in Alloc
    /\ Len(held) < MaxHeld
    /\ Spend(TRUE)
    /\ held' = Append(held, <<[signal |-> s, n |-> 0]>>)
    /\ hist' = Mid(hist) \cup {"forged"}
    /\ Closed
    /\ UNCHANGED <<nSig, inner, generator, receivers, suspended, dirty, status, build, graves, swallowed, origin>>

\* The caller drops token j of its list i: Drop for UpdatePromise
Release(i, j, ovf) ==
    LET tok == held[i][j]
        m == resolve(tok.signal, Machine(ovf))
        rest == RemoveAt(held[i], j)
    IN  /\ Commit(m)
        /\ log' = m.log
        /\ held' = IF rest = <<>> THEN RemoveAt(held, i) ELSE [held EXCEPT ![i] = rest]
        /\ graves' = graves \cup {tok.n + 1}

\* the front token of a list: the order in which a Vec drops its elements
DropNext(i) ==
    /\ status = "ok"
    /\ UNCHANGED threadVars
    /\ i \in 1..Len(held)
    /\ \E ovf \in Builds : Release(i, 1, ovf)
    /\ UNCHANGED <<nSig, generator, receivers, suspended, srcs, hist, swallowed,
                   origin, extra>>

\* any other token of a list
DropAt(i, j) ==
    /\ status = "ok"
    /\ UNCHANGED threadVars
    /\ i \in 1..Len(held)
    /\ j \in 2..Len(held[i])
    /\ Spend(TRUE)
    /\ \E ovf \in Builds : Release(i, j, ovf)
    /\ hist' = hist \cup {"unordered"}
    /\ UNCHANGED <<nSig, generator, receivers, suspended, srcs, swallowed, origin>>

\* token.resolve() on a token the caller goes on holding
CallResolve(i, j) ==
    /\ status = "ok"
    /\ UNCHANGED threadVars
    /\ i \in 1..Len(held)
    /\ j \in 1..Len(held[i])
    /\ Spend(TRUE)
    /\ \E ovf \in Builds :
         LET m == resolve(held[i][j].signal, Machine(ovf))
         IN  /\ Commit(m)
             /\ log' = m.log
    /\ held' = [held EXCEPT ![i][j].n = @ + 1]
    /\ hist' = hist \cup {"resolve"}
    /\ UNCHANGED <<nSig, generator, receivers, suspended, srcs, graves, swallowed,
                   origin>>

DepChoices == {<<a>> : a \in Alloc} \cup {<<a, b>> : a \in Alloc, b \in Alloc}

Muls == {1, 2}

Next ==
    \/ \E v \in 0..MaxVal : CallNew(v)
    \/ \E deps \in DepChoices, mul \in Muls : CallDriven(deps, mul)
    \/ \E s \in Sig, r \in Sig : CallAddReceiver(s, r)
    \/ \E s \in Sig : CallSuspend(s)
    \/ \E s \in Sig : CallResume(s)
    \/ \E s \in Sig : CallDeepClone(s)
    \/ \E s \in Sig, v \in 0..MaxVal : CallSend(s, v)
    \/ \E s \in Sig : CallReact(s)
    \/ \E s \in Sig : CallFromSignal(s)
    \/ \E i \in 1..MaxHeld : DropNext(i)
    \/ \E i \in 1..MaxHeld, j \in 1..(MaxSig * MaxRecv) : DropAt(i, j)
    \/ \E i \in 1..MaxHeld, j \in 1..(MaxSig * MaxRecv) : CallResolve(i, j)

Spec == Init /\ [][Next]_vars

\* ------------------------------------ the shared variant, lock by lock
\* Threads call send, get and add_receiver on the cells of one graph and drop
\* the Vec<UpdatePromise> a send returned.  A step of a thread is one
\* Mutex::lock(), or what the thread does with the guard up to the point
\* where the guard is dropped.
Frame(fn, pc, sig, val) ==
    [fn |-> fn, pc |-> pc, sig |-> sig, val |-> val, i |-> 1, acc |-> <<>>]

Top(t) == stack[t][Len(stack[t])]

Below(t) == SubSeq(stack[t], 1, Len(stack[t]) - 1)

At(t, fns, pc) == stack[t] # <<>> /\ Top(t).fn \in fns /\ Top(t).pc = pc

Idle(t) == stack[t] = <<>>

\* the innermost call of thread t moves on to pc
Goto(t, pc) == [stack EXCEPT ![t] = Append(Below(t), [Top(t) EXCEPT !.pc = pc])]

NoLock == [k |-> "none", s |-> 0]

\* the Mutex the next step of thread t locks
Wants(t) ==
    IF Idle(t) THEN NoLock
    ELSE LET f == Top(t)
         IN  CASE f.pc = "inner_lock" -> [k |-> "inner", s |-> f.sig]
               [] f.pc = "suspended_lock" -> [k |-> "suspended", s |-> f.sig]
               [] f.pc = "receivers_lock" -> [k |-> "receivers", s |-> f.sig]
               [] f.pc = "dirty_lock" -> [k |-> "dirty", s |-> f.sig]
               [] f.pc = "iter" /\ f.i <= Len(receivers[f.sig]) ->
                      [k |-> "dirty", s |-> receivers[f.sig][f.i]]
               [] f.pc = "next" /\ f.i <= Len(f.acc) ->
                      [k |-> "dirty", s |-> f.acc[f.i]]
               [] f.pc = "dep_lock" ->
                      [k |-> "inner", s |-> generator[f.sig].deps[f.i]]
               [] OTHER -> NoLock

\* Mutex::lock() of parking_lot: the caller waits while any thread, itself
\* included, holds the guard
Blocked(t) == Wants(t) # NoLock /\ lock[Wants(t).k][Wants(t).s] # 0

\* (mutant) the guard of a registry is forgotten instead of dropped
unlock_forget(k, s) == IF k = "receivers" THEN lock ELSE [lock EXCEPT ![k][s] = 0]

\* the MutexGuard is dropped
unlock(k, s) == [lock EXCEPT ![k][s] = 0]

\* Mutex::lock() returns the guard
Lock(t) ==
    /\ ~Blocked(t)
    /\ lock' = [lock EXCEPT ![Wants(t).k][Wants(t).s] = t]

\* The frames of a thread after its innermost call returned v to the frames
\* stk: a walk extends its Vec, react returns what its send returned, resolve
\* drops what react returned, and a drop goes on to its next token.
RECURSIVE Return(_, _)
Return(stk, v) ==
    IF stk = <<>> THEN <<>>
    ELSE LET p == stk[Len(stk)]
             rest == SubSeq(stk, 1, Len(stk) - 1)
         IN  CASE p.fn \in {"send", "promise"} ->
                      Append(rest, [p EXCEPT !.acc = @ \o v])
               [] p.fn = "react" -> Return(rest, v)
               [] p.fn = "resolve" /\ p.pc = "react" ->
                      IF v = <<>> THEN Return(rest, <<>>)
                      ELSE Append(rest, [p EXCEPT !.pc = "next", !.acc = v, !.i = 1])
               [] OTHER ->
                      IF p.i > Len(p.acc) THEN Return(rest, <<>>) ELSE stk

\* thread t calls s.send(v) and keeps the Vec
TSend(t, s, v) ==
    /\ status = "ok"
    /\ Idle(t) /\ todo[t] > 0 /\ mine[t] = <<>>
    /\ s \in Alloc
    /\ stack' = [stack EXCEPT ![t] = <<Frame("send", "inner_lock", s, v)>>]
    /\ todo' = [todo EXCEPT ![t] = @ - 1]
    /\ sent' = [sent EXCEPT ![t] = Append(@, s)]
    /\ UNCHANGED <<cellVars, callerVars, status, log, lock, mine>>

\* thread t calls s.get()
TGet(t, s) ==
    /\ status = "ok"
    /\ Idle(t) /\ todo[t] > 0
    /\ s \in Alloc
    /\ stack' = [stack EXCEPT ![t] = <<Frame("get", "inner_lock", s, 0)>>]
    /\ todo' = [todo EXCEPT ![t] = @ - 1]
    /\ UNCHANGED <<cellVars, callerVars, status, log, lock, mine, sent>>

\* thread t calls s.add_receiver(&r) with a derived signal r
TAddReceiver(t, s, r) ==
    /\ status = "ok"
    /\ Idle(t) /\ todo[t] > 0
    /\ s \in Alloc /\ r \in Alloc
    /\ generator[r].some
    /\ Len(receivers[s]) < MaxRecv
    /\ stack' = [stack EXCEPT ![t] = <<Frame("add_receiver", "receivers_lock", s, r)>>]
    /\ todo' = [todo EXCEPT ![t] = @ - 1]
    /\ UNCHANGED <<cellVars, callerVars, status, log, lock, mine, sent>>

\* thread t drops the Vec it holds
TDrop(t) ==
    /\ status = "ok"
    /\ Idle(t) /\ mine[t] # <<>>
    /\ stack' = [stack EXCEPT ![t] = <<[Frame("drop", "next", 0, 0) EXCEPT !.acc = mine[t]]>>]
    /\ mine' = [mine EXCEPT ![t] = <<>>]
    /\ UNCHANGED <<cellVars, callerVars, status, log, lock, todo, sent>>

\* send: self.inner.lock()
SendLockInner(t) ==
    /\ status = "ok"
    /\ At(t, {"send"}, "inner_lock")
    /\ Lock(t)
    /\ stack' = Goto(t, "store")
    /\ UNCHANGED <<cellVars, callerVars, status, log, mine, todo, sent>>

\* (mutant) an assignment that is lost
store_lost(old, value) == old

\* *guard = value
store(old, value) == value

\* send: *guard = value, and the guard is dropped with the statement
SendStore(t) ==
    /\ status = "ok"
    /\ At(t, {"send"}, "store")
    /\ inner' = [inner EXCEPT ![Top(t).sig] = store(@, Top(t).val)]
    /\ lock' = unlock("inner", Top(t).sig)
    /\ stack' = Goto(t, "suspended_lock")
    /\ UNCHANGED <<nSig, generator, receivers, suspended, dirty, callerVars,
                   status, log, mine, todo, sent>>

\* send: self.suspended.lock()
SendLockSuspended(t) ==
    /\ status = "ok"
    /\ At(t, {"send"}, "suspended_lock")
    /\ Lock(t)
    /\ stack' = Goto(t, "suspended_read")
    /\ UNCHANGED <<cellVars, callerVars, status, log, mine, todo, sent>>

\* send: the flag is read, the guard dropped, and a suspended signal returns
\* Vec::new()
SendReadSuspended(t) ==
    /\ status = "ok"
    /\ At(t, {"send"}, "suspended_read")
    /\ lock' = unlock("suspended", Top(t).sig)
    /\ stack' = [stack EXCEPT ![t] =
                    IF suspended[Top(t).sig]
                    THEN Return(Below(t), <<>>)
                    ELSE Goto(t, "receivers_lock")[t]]
    /\ UNCHANGED <<cellVars, callerVars, status, log, mine, todo, sent>>

\* send and receiver_promise: self.receivers.lock(), the guard living to the
\* end of the function
WalkLockReceivers(t) ==
    /\ status = "ok"
    /\ At(t, {"send", "promise"}, "receivers_lock")
    /\ Lock(t)
    /\ stack' = Goto(t, "iter")
    /\ UNCHANGED <<cellVars, callerVars, status, log, mine, todo, sent>>

\* flat_map: receiver.promise() on the next receiver, which starts with
\* increase_dirty: self.dirty.lock()
WalkNext(t) ==
    /\ status = "ok"
    /\ At(t, {"send", "promise"}, "iter")
    /\ Top(t).i <= Len(receivers[Top(t).sig])
    /\ Lock(t)
    /\ stack' = [stack EXCEPT ![t] =
                    Below(t) \o <<[Top(t) EXCEPT !.i = @ + 1],
                                  Frame("promise", "increase", Wants(t).s, 0)>>]
    /\ UNCHANGED <<cellVars, callerVars, status, log, mine, todo, sent>>

\* promise: *guard += 1, the guard is dropped, and the token is made
PromiseIncrease(t) ==
    /\ status = "ok"
    /\ At(t, {"promise"}, "increase")
    /\ dirty' = increase_dirty(Top(t).sig, Machine("debug")).dirty
    /\ lock' = unlock("dirty", Top(t).sig)
    /\ stack' = Goto(t, "receivers_lock")
    /\ UNCHANGED <<nSig, inner, generator, receivers, suspended, callerVars,
                   status, log, mine, todo, sent>>

\* the end of the registry: the guard is dropped and the Vec returned, to the
\* walk above or to the thread
WalkEnd(t) ==
    /\ status = "ok"
    /\ At(t, {"send", "promise"}, "iter")
    /\ Top(t).i > Len(receivers[Top(t).sig])
    /\ lock' = unlock("receivers", Top(t).sig)
    /\ LET v == IF Top(t).fn = "promise" THEN <<Top(t).sig>> \o Top(t).acc
                ELSE Top(t).acc
       IN  /\ stack' = [stack EXCEPT ![t] = Return(Below(t), v)]
           /\ mine' = IF Below(t) = <<>> THEN [mine EXCEPT ![t] = v] ELSE mine
    /\ UNCHANGED <<cellVars, callerVars, status, log, todo, sent>>

\* Drop of the next UpdatePromise of a Vec: resolve, which starts with
\* decrease_dirty: self.dirty.lock()
DropToken(t) ==
    /\ status = "ok"
    /\ At(t, {"drop", "resolve"}, "next")
    /\ Top(t).i <= Len(Top(t).acc)
    /\ Lock(t)
    /\ stack' = [stack EXCEPT ![t] =
                    Below(t) \o <<[Top(t) EXCEPT !.i = @ + 1],
                                  Frame("resolve", "decrease", Wants(t).s, 0)>>]
    /\ UNCHANGED <<cellVars, callerVars, status, log, mine, todo, sent>>

\* resolve: *guard -= 1, and the guard is dropped.  The frame keeps, in val,
\* the count this decrement left.
ResolveDecrease(t) ==
    /\ status = "ok"
    /\ At(t, {"resolve"}, "decrease")
    /\ LET m == decrease_dirty(Top(t).sig, Machine("debug"))
       IN  /\ dirty' = m.dirty
           /\ status' = m.status
           /\ stack' = [stack EXCEPT ![t] = Append(Below(t),
                           [Top(t) EXCEPT !.pc = "dirty_lock", !.val = m.dirty[Top(t).sig]])]
    /\ lock' = unlock("dirty", Top(t).sig)
    /\ UNCHANGED <<nSig, inner, generator, receivers, suspended, callerVars,
                   log, mine, todo, sent>>

\* resolve: self.signal.dirty() locks the counter again
ResolveLockDirty(t) ==
    /\ status = "ok"
    /\ At(t, {"resolve"}, "dirty_lock")
    /\ Lock(t)
    /\ stack' = Goto(t, "dirty_read")
    /\ UNCHANGED <<cellVars, callerVars, status, log, mine, todo, sent>>

\* resolve: the counter is read and the guard dropped; on 0 the signal
\* reacts, which starts with generator.as_ref().unwrap()
ResolveRead(t) ==
    /\ status = "ok"
    /\ At(t, {"resolve"}, "dirty_read")
    /\ lock' = unlock("dirty", Top(t).sig)
    /\ IF dirty[Top(t).sig] # 0
       THEN /\ stack' = [stack EXCEPT ![t] = Return(Below(t), <<>>)]
            /\ status' = status
       ELSE IF ~generator[Top(t).sig].some
       THEN /\ stack' = stack
            /\ status' = "panic_unwrap"
       ELSE /\ stack' = [stack EXCEPT ![t] =
                            Below(t) \o <<[Top(t) EXCEPT !.pc = "react", !.val = 0],
                                          Frame("react", "dep_lock", Top(t).sig, 0)>>]
            /\ status' = status
    /\ UNCHANGED <<cellVars, callerVars, log, mine, todo, sent>>

\* processor: get() on the next dependency locks its value
ReactLockDep(t) ==
    /\ status = "ok"
    /\ At(t, {"react"}, "dep_lock")
    /\ Lock(t)
    /\ stack' = Goto(t, "dep_read")
    /\ UNCHANGED <<cellVars, callerVars, status, log, mine, todo, sent>>

\* processor: the value is cloned and the guard dropped; after the last
\* dependency the effect runs
ReactReadDep(t) ==
    /\ status = "ok"
    /\ At(t, {"react"}, "dep_read")
    /\ LET f == Top(t)
           g == generator[f.sig]
           seen == Append(f.acc, inner[g.deps[f.i]])
       IN  /\ lock' = unlock("inner", g.deps[f.i])
           /\ stack' = [stack EXCEPT ![t] = Append(Below(t),
                           IF f.i < Len(g.deps)
                           THEN [f EXCEPT !.pc = "dep_lock", !.i = @ + 1, !.acc = seen]
                           ELSE [f EXCEPT !.pc = "inner_lock", !.acc = seen,
                                          !.val = g.mul * SumSeq(seen)])]
    /\ UNCHANGED <<cellVars, callerVars, status, log, mine, todo, sent>>

\* effect(&s, &x) as signal! writes it for <before, now>: _self.get() locks
\* the value of the signal itself
EffectLock(t) ==
    /\ status = "ok"
    /\ At(t, {"react"}, "inner_lock")
    /\ Lock(t)
    /\ stack' = Goto(t, "effect")
    /\ UNCHANGED <<cellVars, callerVars, status, log, mine, todo, sent>>

\* effect: the value is cloned and the guard dropped, the effect ends, and
\* react calls self.send(value).  The effect reads its own value only: no
\* counter is recorded.
EffectClone(t) ==
    /\ status = "ok"
    /\ At(t, {"react"}, "effect")
    /\ lock' = unlock("inner", Top(t).sig)
    /\ log' = Append(log, [sig |-> Top(t).sig, before |-> inner[Top(t).sig],
                           now |-> Top(t).val, armed |-> <<>>])
    /\ stack' = [stack EXCEPT ![t] =
                    Below(t) \o <<[Top(t) EXCEPT !.pc = "send"],
                                  Frame("send", "inner_lock", Top(t).sig, Top(t).val)>>]
    /\ UNCHANGED <<cellVars, callerVars, status, mine, todo, sent>>

\* get: self.inner.lock()
GetLock(t) ==
    /\ status = "ok"
    /\ At(t, {"get"}, "inner_lock")
    /\ Lock(t)
    /\ stack' = Goto(t, "clone")
    /\ UNCHANGED <<cellVars, callerVars, status, log, mine, todo, sent>>

\* get: the value is cloned and the guard dropped
GetClone(t) ==
    /\ status = "ok"
    /\ At(t, {"get"}, "clone")
    /\ lock' = unlock("inner", Top(t).sig)
    /\ stack' = [stack EXCEPT ![t] = Return(Below(t), <<>>)]
    /\ UNCHANGED <<cellVars, callerVars, status, log, mine, todo, sent>>

\* add_receiver: self.receivers.lock()
AddLock(t) ==
    /\ status = "ok"
    /\ At(t, {"add_receiver"}, "receivers_lock")
    /\ Lock(t)
    /\ stack' = Goto(t, "push")
    /\ UNCHANGED <<cellVars, callerVars, status, log, mine, todo, sent>>

\* add_receiver: push, and the guard is dropped
AddPush(t) ==
    /\ status = "ok"
    /\ At(t, {"add_receiver"}, "push")
    /\ receivers' = add_receiver(Top(t).sig, Top(t).val)
    /\ lock' = unlock("receivers", Top(t).sig)
    /\ stack' = [stack EXCEPT ![t] = Return(Below(t), <<>>)]
    /\ UNCHANGED <<nSig, inner, generator, suspended, dirty, callerVars, status,
                   log, mine, todo, sent>>

\* lib.rs tests::test, its signals shared by the threads
InitC ==
    /\ nSig = Diamond.n
    /\ inner = Diamond.inner
    /\ generator = Diamond.generator
    /\ receivers = Diamond.receivers
    /\ origin = Diamond.origin
    /\ suspended = [s \in Sig |-> FALSE]
    /\ dirty = [s \in Sig |-> 0]
    /\ held = <<>>
    /\ status = "ok"
    /\ build = "unknown"
    /\ log = <<>>
    /\ srcs = {}
    /\ hist = {}
    /\ graves = {}
    /\ swallowed = {}
    /\ extra = 0
    /\ lock = [k \in Mutexes |-> [s \in Sig |-> 0]]
    /\ stack = [t \in Threads |-> <<>>]
    /\ mine = [t \in Threads |-> <<>>]
    /\ todo = [t \in Threads |-> MaxCalls]
    /\ sent = [t \in Threads |-> <<>>]

\* the value thread t sends: none is the value of another thread or the
\* first value of a signal
SentBy(t) == 5 + t

\* thread t makes a call
Begin(t) ==
    \/ \E s \in Sig : TSend(t, s, SentBy(t))
    \/ \E s \in Sig : TGet(t, s)
    \/ \E s \in Sig, r \in Sig : TAddReceiver(t, s, r)
    \/ TDrop(t)

\* thread t goes on with the call it is in
Run(t) ==
    \/ SendLockInner(t)
    \/ SendStore(t)
    \/ SendLockSuspended(t)
    \/ SendReadSuspended(t)
    \/ WalkLockReceivers(t)
    \/ WalkNext(t)
    \/ PromiseIncrease(t)
    \/ WalkEnd(t)
    \/ DropToken(t)
    \/ ResolveDecrease(t)
    \/ ResolveLockDirty(t)
    \/ ResolveRead(t)
    \/ ReactLockDep(t)
    \/ ReactReadDep(t)
    \/ EffectLock(t)
    \/ EffectClone(t)
    \/ GetLock(t)
    \/ GetClone(t)
    \/ AddLock(t)
    \/ AddPush(t)

NextC == \E t \in Threads : Begin(t) \/ Run(t)

SpecC == InitC /\ [][NextC]_vars

\* the scheduler runs every thread that can go on
FairSpecC == SpecC /\ \A t \in Threads : WF_vars(Run(t))

\* ---------------------------------------------- the registry as a graph
\* the cells registered with one of the cells of S
Succ(S) == UNION {Range(receivers[x]) : x \in S}

RECURSIVE Closure(_)
Closure(S) == IF Succ(S) \subseteq S THEN S ELSE Closure(S \cup Succ(S))

\* the cells a send on s can reach through the registries
Reach(s) == Closure(Succ({s}))

Derived(s) == generator[s].some

\* the effect calls made for cell s since the batch began
Runs(s) == {i \in 1..Len(log) : log[i].sig = s}

\* every recomputation of r found each derived x on a path from the source
\* to r already recomputed
AncestorsFirst(s) ==
    \A r \in Reach(s), x \in Reach(s) :
        (Derived(x) /\ x # r /\ r \in Reach(x)) =>
            \A i \in Runs(r) : \E j \in Runs(x) : j < i

\* One wave, from a send made by a caller holding nothing, with nothing but
\* drops until it is over
OneWave(s) == srcs = {s} /\ status = "ok" /\ "mid" \notin hist

InOrder == hist \cap {"unordered", "resolve", "forged", "react"} = {}

Together == hist \cap {"resolve", "forged", "react"} = {}

\* ------------------------------------------------------------ claims

\* C1: after one send on an unsuspended source, its tokens released in the
\* returned order, every derived signal reachable from the source has
\* recomputed exactly once, and no derived signal has recomputed before a
\* derived ancestor of it that the source reaches (diamond, duplicate
\* registrations and every other acyclic registry of the model included).
C1_ExactlyOnceGlitchFree ==
    \A s \in Alloc :
        (OneWave(s) /\ InOrder) =>
            /\ AncestorsFirst(s)
            /\ \A r \in Reach(s) : Cardinality(Runs(r)) <= 1
            /\ held = <<>> => \A r \in Reach(s) : Derived(r) => Cardinality(Runs(r)) = 1

\* the diamond after the wave of x.send(2): doubled, tripled and their sum
\* have each run once, the sum last and on 4 + 6
C1_Witness ==
    /\ OneWave(1) /\ InOrder /\ held = <<>>
    /\ receivers[1] = <<2, 3>> /\ receivers[2] = <<4>> /\ receivers[3] = <<4>>
    /\ inner[1] = 2
    /\ [i \in 1..Len(log) |-> log[i].sig] = <<2, 3, 4>>
    /\ inner[4] = 10

\* C2: the tokens of one send released all together in any order: a derived
\* signal recomputes exactly once, and never before a derived ancestor of it
\* in the wave has recomputed.
C2_AnyOrder ==
    \A s \in Alloc :
        (OneWave(s) /\ Together) =>
            /\ AncestorsFirst(s)
            /\ \A r \in Reach(s) : Cardinality(Runs(r)) <= 1

\* C3: with the registry wired before the first send, sends on independent
\* signals only, and each send's tokens dropped in order before the next
\* call, every derived signal all of whose dependencies notify it holds its
\* processor's value on the current values of its dependencies.
Sequential ==
    hist \cap {"mid", "unordered", "resolve", "forged", "react", "gate",
               "late", "sendDerived"} = {}

Notified(r) == \A i \in 1..Len(generator[r].deps) :
                   r \in Range(receivers[generator[r].deps[i]])

C3_QuiescentConsistency ==
    (status = "ok" /\ held = <<>> /\ Sequential) =>
        \A r \in Alloc :
            (Derived(r) /\ Notified(r)) => inner[r] = processor(generator[r], inner)

\* a = 10 is out of the model's range: sum = a + b after a.send(2) and
\* then b.send(0)
C3_Witness ==
    /\ status = "ok" /\ held = <<>> /\ Sequential
    /\ generator[3] = Gen(<<1, 2>>, 1) /\ Notified(3)
    /\ inner[1] = 2 /\ inner[2] = 0 /\ inner[3] = 2
    /\ srcs = {2}

\* C4: over its whole lifetime a token made by promise runs the decrement
\* of resolve() exactly once, no counter is decremented below 0, whether the
\* token is dropped, resolved explicitly, or resolved and then dropped.
C4_TokenSafety ==
    "forged" \notin hist =>
        /\ graves \subseteq {1}
        /\ status # "panic_underflow"
        /\ \A s \in Alloc : dirty[s] >= 0

\* C5: whenever no call is in progress, the dirty counter of every cell,
\* deep clones included, is the number of live tokens bound to it.
Live(s) == {p \in (1..MaxHeld) \X (1..(MaxSig * MaxRecv * MaxRecv)) :
               /\ p[1] <= Len(held)
               /\ p[2] <= Len(held[p[1]])
               /\ held[p[1]][p[2]].signal = s}

C5_TokenCount ==
    (status = "ok" /\ hist \cap {"forged", "resolve"} = {}) =>
        \A s \in Alloc : dirty[s] = Cardinality(Live(s))

\* ------------------------------------------- what a send is to produce
\* the number of registry paths from s to r, counted from r backwards over
\* the registrations that name r
RECURSIVE NPaths(_, _), SumPaths(_, _)
SumPaths(s, E) ==
    IF E = {} THEN 0
    ELSE LET e == CHOOSE x \in E : TRUE
         IN  (IF e[1] = s THEN 1 ELSE NPaths(s, e[1])) + SumPaths(s, E \ {e})

NPaths(s, r) ==
    SumPaths(s, {e \in (Reach(s) \cup {s}) \X (1..MaxRecv) :
                    e[2] <= Len(receivers[e[1]]) /\ receivers[e[1]][e[2]] = r})

\* no effect has run in the step
NoRun == log' = log \/ log' = <<>>

\* C6: when send on an unsuspended source returns, no processor or effect has
\* run since it began, and every dirty counter has grown by the number of
\* registry paths from the source to its cell (by 0 where there is none).
C6_ArmBeforeResolve ==
    [][\A s \in Sig, v \in 0..MaxVal :
          (CallSend(s, v) /\ ~suspended[s] /\ status' = "ok") =>
              /\ NoRun
              /\ \A r \in Alloc : dirty'[r] = dirty[r] + NPaths(s, r)]_vars

\* x.send(v) on the diamond has returned: 1, 1 and 2 on doubled, tripled
\* and their sum, four tokens, nothing recomputed
C6_Witness ==
    /\ srcs = {1} /\ status = "ok" /\ hist = {"sent"}
    /\ receivers[1] = <<2, 3>> /\ receivers[2] = <<4>> /\ receivers[3] = <<4>>
    /\ Len(held) = 1 /\ Len(held[1]) = 4
    /\ dirty[2] = 1 /\ dirty[3] = 1 /\ dirty[4] = 2
    /\ log = <<>>
    /\ inner[4] = 5

\* the token list of promise(r): depth first, r before what r notifies
RECURSIVE PromiseList(_), Flat(_)
Flat(qs) == IF qs = <<>> THEN <<>> ELSE Head(qs) \o Flat(Tail(qs))

PromiseList(r) ==
    <<r>> \o Flat([i \in 1..Len(receivers[r]) |-> PromiseList(receivers[r][i])])

SendList(s) == Flat([i \in 1..Len(receivers[s]) |-> PromiseList(receivers[s][i])])

\* the step hands the caller one more list, bound to the cells of q in order
Returned(q) ==
    IF q = <<>> THEN held' = held
    ELSE held' = Append(held, [i \in 1..Len(q) |-> [signal |-> q[i], n |-> 0]])

\* C7: a send on a suspended signal stores the value and does nothing else:
\* no token, no counter changed, nothing run.  resume changes nothing but the
\* flag, so nothing is replayed, and the next send on a signal that had a
\* send discarded arms its whole fan-out like any other send.
C7_SuspensionGate ==
    [][/\ \A s \in Sig, v \in 0..MaxVal :
            (CallSend(s, v) /\ suspended[s]) =>
                /\ inner' = [inner EXCEPT ![s] = v]
                /\ held' = held
                /\ dirty' = dirty
                /\ status' = "ok"
                /\ NoRun
       /\ \A s \in Sig :
            CallResume(s) => (UNCHANGED <<inner, dirty, held, status>> /\ NoRun)
       /\ \A s \in Sig, v \in 0..MaxVal :
            (CallSend(s, v) /\ ~suspended[s] /\ s \in swallowed /\ status' = "ok") =>
                /\ inner' = [inner EXCEPT ![s] = v]
                /\ Returned(SendList(s))
                /\ \A r \in Alloc : dirty'[r] = dirty[r] + NPaths(s, r)]_vars

\* x of the diamond was suspended, had a send discarded, was resumed, and
\* its next send has armed doubled, tripled and (twice) their sum
C7_Witness ==
    /\ 1 \in swallowed /\ ~suspended[1] /\ srcs = {1} /\ status = "ok"
    /\ Len(held) = 1
    /\ [i \in 1..Len(held[1]) |-> held[1][i].signal] = <<2, 4, 3, 4>>
    /\ dirty[4] = 2

\* C8: a release calls react on its cell only if the cell owns a processor;
\* the last token of an independent signal registered as a receiver is
\* released without react and without failure.
C8_RecomputeCondition ==
    "react" \notin hist => status # "panic_unwrap"

\* no cell is reached from itself through the registries
Acyclic == \A s \in Alloc : s \notin Reach(s)

\* threads that wait for each other: each waits for a Mutex held by one of
\* them
Deadlocked ==
    \E D \in (SUBSET Threads) \ {{}} :
        \A t \in D : Blocked(t) /\ lock[Wants(t).k][Wants(t).s] \in D

\* a Mutex is held only by a thread inside a call
LocksInCalls ==
    \A k \in Mutexes, s \in Sig : lock[k][s] # 0 => ~Idle(lock[k][s])

\* C9: while the graph is acyclic, threads that call send, get and
\* add_receiver and drop their tokens never wait for each other in a circle
\* and no Mutex is left locked by a thread that is outside a call; under a
\* fair scheduler every call that has begun returns, so that every Mutex
\* that is locked is unlocked again.
C9_DeadlockFreedom ==
    /\ [](Acyclic => ~Deadlocked /\ LocksInCalls)
    /\ \A t \in Threads : ~Idle(t) ~> (Idle(t) \/ ~Acyclic)

\* a thread waits for the registry of a cell of the diamond while the thread
\* that holds it is further down its walk, holding a second registry
C9_Witness ==
    /\ Acyclic
    /\ \E t \in Threads :
         /\ Blocked(t)
         /\ Wants(t).k = "receivers"
         /\ LET u == lock["receivers"][Wants(t).s]
            IN  /\ u # t
                /\ Cardinality({s \in Alloc : lock["receivers"][s] = u}) >= 2

\* the steps made on cell c, and what they leave of cell s
On(c) ==
    \/ \E v \in 0..MaxVal : CallSend(c, v)
    \/ CallSuspend(c)
    \/ CallResume(c)
    \/ \E r \in Sig : CallAddReceiver(c, r)

Kept(s) ==
    /\ inner'[s] = inner[s]
    /\ suspended'[s] = suspended[s]
    /\ dirty'[s] = dirty[s]
    /\ receivers'[s] = receivers[s]

\* deep_clone returns a new cell with the value, flag, counter, registry and
\* generator of s, and leaves every other cell as it was
ClonedFrom(s) ==
    /\ nSig' = nSig + 1
    /\ inner'[nSig'] = inner[s]
    /\ suspended'[nSig'] = suspended[s]
    /\ dirty'[nSig'] = dirty[s]
    /\ receivers'[nSig'] = receivers[s]
    /\ generator'[nSig'] = generator[s]
    /\ \A x \in Alloc : Kept(x)

\* C10 as stated: send, suspend, resume and add_receiver on a deep clone,
\* once returned, have left the value, flag, counter and registry of its
\* original unchanged, and the other way round.
C10_Independent ==
    [][\A c \in Sig :
          (c \in Alloc /\ origin[c] # 0) =>
              /\ (On(c) /\ status' = "ok") => Kept(origin[c])
              /\ (On(origin[c]) /\ status' = "ok") => Kept(c)]_vars

\* C10, amended: deep_clone copies value, flag, counter and registry; after
\* that a call on one of the two leaves the other unchanged unless it is a
\* send and the other is registered, directly or through other cells, to be
\* notified by it; a send on the clone returns the tokens of the receivers
\* it copied, in their order.
SendOn(c) == \E v \in 0..MaxVal : CallSend(c, v)

C10_DeepClone ==
    [][/\ \A s \in Sig : CallDeepClone(s) => ClonedFrom(s)
       /\ \A c \in Sig :
            (c \in Alloc /\ origin[c] # 0) =>
                /\ (On(c) /\ ~(SendOn(c) /\ origin[c] \in Reach(c))) => Kept(origin[c])
                /\ (On(origin[c]) /\ ~(SendOn(origin[c]) /\ c \in Reach(origin[c])))
                       => Kept(c)
                /\ (SendOn(c) /\ ~suspended[c] /\ status' = "ok"
                        /\ receivers[c] = receivers[origin[c]])
                       => Returned(SendList(origin[c]))]_vars

\* c = x.deep_clone() has been sent a value of its own and holds the token
\* of y, the receiver it copied from x; x has kept its value
C10_Witness ==
    /\ nSig >= 3 /\ origin[3] = 1 /\ status = "ok"
    /\ srcs = {3} /\ inner[3] # inner[1]
    /\ receivers[3] = receivers[1]
    /\ held = <<<<[signal |-> 2, n |-> 0]>>>>
    /\ dirty[2] = 1

\* the cell the step has constructed
Fresh == nSig + 1

\* C11: driven returns a cell holding the value of its processor on the
\* present values, with the processor kept as its generator, counter 0, not
\* suspended and no receivers; new(v) returns a cell holding v with no
\* generator and counter 0.  Neither runs an effect or the generator of any
\* signal, and neither changes a cell that exists.
C11_Construction ==
    [][/\ \A deps \in DepChoices, mul \in Muls :
            CallDriven(deps, mul) =>
                /\ nSig' = Fresh
                /\ generator'[Fresh] = Gen(deps, mul)
                /\ inner'[Fresh] = mul * SumSeq([i \in 1..Len(deps) |-> inner[deps[i]]])
                /\ dirty'[Fresh] = 0 /\ ~suspended'[Fresh] /\ receivers'[Fresh] = <<>>
                /\ NoRun
                /\ \A x \in Alloc : Kept(x) /\ generator'[x] = generator[x]
       /\ \A v \in 0..MaxVal :
            CallNew(v) =>
                /\ nSig' = Fresh
                /\ inner'[Fresh] = v
                /\ ~generator'[Fresh].some
                /\ dirty'[Fresh] = 0 /\ ~suspended'[Fresh] /\ receivers'[Fresh] = <<>>
                /\ NoRun
                /\ \A x \in Alloc : Kept(x) /\ generator'[x] = generator[x]]_vars

\* a fifth signal, twice the sum of the diamond, has been constructed by
\* driven: it holds 10, and nothing has run
C11_Witness ==
    /\ nSig = 5 /\ generator[5] = Gen(<<4>>, 2)
    /\ inner[4] = 5 /\ inner[5] = 10
    /\ dirty[5] = 0 /\ ~suspended[5] /\ receivers[5] = <<>>
    /\ log = <<>> /\ status = "ok"

\* the number of elements of q that are r
Count(q, r) == Cardinality({i \in 1..Len(q) : q[i] = r})

\* C12: send on an unsuspended signal returns, over its receivers in
\* registration order, the token of the receiver followed by the tokens of
\* what the receiver notifies, depth first.  The list holds one token of a
\* cell for each registry path from the source to it, and each token comes
\* after a token of a cell that notifies its cell, unless the source does.
C12_TokenList ==
    [][\A s \in Sig, v \in 0..MaxVal :
          (CallSend(s, v) /\ ~suspended[s] /\ status' = "ok") =>
              LET q == SendList(s)
              IN  /\ Returned(q)
                  /\ \A r \in Alloc : Count(q, r) = NPaths(s, r)
                  /\ \A j \in 1..Len(q) :
                        \/ q[j] \in Range(receivers[s])
                        \/ \E i \in 1..(j - 1) : q[j] \in Range(receivers[q[i]])]_vars

\* x.send(0) on the diamond has returned doubled, sum, tripled, sum
C12_Witness ==
    /\ srcs = {1} /\ status = "ok" /\ hist = {"sent"} /\ swallowed = {}
    /\ receivers[1] = <<2, 3>> /\ receivers[2] = <<4>> /\ receivers[3] = <<4>>
    /\ inner[1] = 0
    /\ held = <<[i \in 1..4 |-> [signal |-> <<2, 4, 3, 4>>[i], n |-> 0]]>>

\* every thread is between calls, and the sends made were all on s
OnlySent(s) ==
    /\ \A t \in Threads : Idle(t) /\ sent[t] # <<>> /\ Range(sent[t]) = {s}
    /\ s \notin Reach(s)

\* C13: when every thread has sent its own value to the same signal and all
\* the sends have returned, the signal holds the value of one of the
\* threads; the value of a signal changes only in the store of a send, to
\* the value of that send, so that the one stored last is the one kept.
C13_ConcurrentWriters ==
    /\ [](\A s \in Alloc : OnlySent(s) => \E t \in Threads : inner[s] = SentBy(t))
    /\ [][\A s \in Alloc :
             inner'[s] # inner[s] =>
                 \E t \in Threads :
                     /\ SendStore(t)
                     /\ Top(t).sig = s
                     /\ inner'[s] = Top(t).val]_vars

\* both threads have sent to x and released their tokens, and x holds the
\* value of thread 1
C13_Witness ==
    /\ OnlySent(1)
    /\ \A t \in Threads : mine[t] = <<>>
    /\ inner[1] = SentBy(1)

\* C14: a resolve goes on to react only if its own decrement took the
\* counter to 0: the decrement and the test for 0 are one step, so of two
\* threads that release the two tokens of a receiver only one recomputes it.
C14_AtomicRelease ==
    [][\A t \in Threads :
          (ResolveRead(t) /\ dirty[Top(t).sig] = 0) => Top(t).val = 0]_vars

\* the cells that S notifies through its members that are not suspended
OpenSucc(S) == UNION {Range(receivers[x]) : x \in {y \in S : ~suspended[y]}}

RECURSIVE OpenClosure(_)
OpenClosure(S) ==
    IF OpenSucc(S) \subseteq S THEN S ELSE OpenClosure(S \cup OpenSucc(S))

\* the cells a wave of s reaches without passing through a suspended cell
Through(s) == OpenClosure(Range(receivers[s]))

\* C15: in a wave that reaches a suspended derived signal, the signal itself
\* recomputes, but a signal that the source reaches only through it is not
\* recomputed, and after the wave its counter is what it was before, 0.
C15_SuspendedInside ==
    \A s \in Alloc :
        (OneWave(s) /\ InOrder) =>
            /\ held = <<>> =>
                   \A d \in Through(s) : Derived(d) => Runs(d) # {}
            /\ \A e \in Reach(s) \ Through(s) :
                   /\ Runs(e) = {}
                   /\ held = <<>> => dirty[e] = 0

\* the effect calls of the step: those of log' behind position NewFrom
NewFrom == IF Busy THEN Len(log) ELSE 0

\* the effect calls of the step for cell r
NewRuns(r) == {i \in (NewFrom + 1)..Len(log') : log'[i].sig = r}

\* the counters when the first react of the step is entered: those from
\* before the step, the token's own count taken off by resolve unless the
\* caller has called react itself
Entered(r) ==
    IF \E s \in Sig : CallReact(s) THEN dirty ELSE [dirty EXCEPT ![r] = @ - 1]

\* C16: each recomputation runs its effect once, before the new value is
\* stored and before the receivers of the signal are armed: while the effect
\* runs, get() on the signal returns the value it had before this
\* recomputation (before the step, or the value stored by its previous
\* recomputation in the step), the counters of the receivers of the first
\* signal recomputed in a step are still those with which react was entered,
\* and the value stored afterwards is the one the effect was given.
C16_EffectBeforeStore ==
    [][status' = "ok" =>
          /\ \A r \in Alloc :
                 /\ \A i \in NewRuns(r) :
                        LET earlier == {k \in NewRuns(r) : k < i}
                        IN  log'[i].before =
                                IF earlier = {} THEN inner[r]
                                ELSE log'[CHOOSE k \in earlier : \A l \in earlier : l <= k].now
                 /\ NewRuns(r) # {} =>
                        inner'[r] = log'[CHOOSE k \in NewRuns(r) :
                                            \A l \in NewRuns(r) : l <= k].now
          /\ Len(log') > NewFrom =>
                 LET e == log'[NewFrom + 1]
                 IN  e.armed = Armed(e.sig, Entered(e.sig))]_vars

\* the wave of x.send(2) on the diamond: each effect has seen the value of
\* its signal from before the wave, the sum 5 while being given 10
C16_Witness ==
    /\ OneWave(1) /\ InOrder /\ held = <<>>
    /\ log = <<[sig |-> 2, before |-> 2, now |-> 4, armed |-> <<2>>],
               [sig |-> 3, before |-> 3, now |-> 6, armed |-> <<1>>],
               [sig |-> 4, before |-> 5, now |-> 10, armed |-> <<>>]>>
    /\ inner[2] = 4 /\ inner[3] = 6 /\ inner[4] = 10

\* Nothing but sends and drops from the front of a list, and no send after
\* the first drop: the lists are held until all the sends are made
Batch ==
    /\ status = "ok"
    /\ hist \subseteq {"sent", "mid", "sendDerived"}

\* the cells the sends of the batch reach
Affected == UNION {Reach(s) : s \in srcs}

\* C17: while the caller only sends and keeps the lists, nothing is
\* recomputed; once it has dropped every list, each from the front, every
\* derived signal the sends reach has been recomputed exactly once, every
\* counter is 0, and every derived signal reached holds its processor's
\* value on the present values.
C17_Batching ==
    Batch =>
        /\ graves = {} => log = <<>>
        /\ held = <<>> =>
               /\ \A r \in Affected : Derived(r) => Cardinality(Runs(r)) = 1
               /\ \A r \in Alloc : dirty[r] = 0
               /\ \A r \in Affected :
                      (Derived(r) /\ Notified(r)) =>
                          inner[r] = processor(generator[r], inner)

\* a.send(2) and b.send(0) were made before either list was dropped, and
\* the sum has been recomputed once, on 2 + 0
C17_Witness ==
    /\ Batch /\ "mid" \in hist /\ held = <<>>
    /\ srcs = {1, 2}
    /\ generator[3] = Gen(<<1, 2>>, 1)
    /\ inner[1] = 2 /\ inner[2] = 0 /\ inner[3] = 2
    /\ Len(log) = 1

\* C18: when the threads have each sent their value to the same signal X,
\* whose one receiver Y is derived, and have each dropped their tokens right
\* after, the counter of Y is 0 and Y holds its processor's value on the
\* present values, that of X included.
C18_Convergence ==
    \A X \in Alloc, Y \in Alloc :
        (/\ OnlySent(X)
         /\ \A t \in Threads : mine[t] = <<>>
         /\ receivers[X] = <<Y>> /\ Derived(Y)
         /\ status = "ok") =>
            /\ dirty[Y] = 0
            /\ inner[Y] = processor(generator[Y], inner)

\* the tokens the caller holds
RECURSIVE HeldTokens(_)
HeldTokens(i) == IF i > Len(held) THEN 0 ELSE Len(held[i]) + HeldTokens(i + 1)

\* the caller has made sends and dropped tokens, in any order, and nothing
\* else with a token in hand
Released ==
    /\ "mid" \notin hist /\ "late" \notin hist /\ Together
    /\ status # "deadlock"

\* C19: on an acyclic graph no call blocks on a Mutex its own thread holds,
\* a drop that returns has consumed its own token and every token of the
\* waves it started, so that the tokens in hand go down by one with each
\* drop, and once none is left every counter is back at 0.
C19_Termination ==
    /\ [][Acyclic => status' # "deadlock"]_vars
    /\ [][(graves' # graves /\ status' = "ok" /\ Acyclic)
             => HeldTokens(1)' = HeldTokens(1) - 1]_vars
    /\ []((Released /\ held = <<>>) => \A r \in Alloc : dirty[r] = 0)

\* the four tokens of x.send(2) on the diamond have been dropped, the sum
\* recomputed, and every counter is 0 again
C19_Witness ==
    /\ status = "ok" /\ hist = {"sent"} /\ srcs = {1} /\ held = <<>>
    /\ graves = {1}
    /\ receivers[1] = <<2, 3>> /\ receivers[2] = <<4>> /\ receivers[3] = <<4>>
    /\ inner[1] = 2 /\ inner[4] = 10
    /\ \A r \in Alloc : dirty[r] = 0

\* a registry path leads from s to a cell that a registry path leads back to
Cyclic(s) == \E c \in Reach(s) : c \in Reach(c)

\* C20: add_receiver takes any signal as a receiver of any signal, whatever
\* the registries hold, and pushes it.  A send on an unsuspended signal from
\* which a cycle of registrations can be reached does not return: its thread
\* locks a receivers Mutex it holds, the caller gets no token, and the thread
\* takes no step after that.
C20_Cycles ==
    /\ [](\A s \in Alloc, r \in Alloc :
             (status = "ok" /\ Len(receivers[s]) < MaxRecv /\ extra < MaxExtra)
                 => ENABLED CallAddReceiver(s, r))
    /\ [][\A s \in Sig, r \in Sig :
             CallAddReceiver(s, r) =>
                 /\ receivers' = [receivers EXCEPT ![s] = Append(@, r)]
                 /\ status' = "ok"]_vars
    /\ [][\A s \in Sig, v \in 0..MaxVal :
             (CallSend(s, v) /\ ~suspended[s] /\ Cyclic(s)) =>
                 /\ status' = "deadlock"
                 /\ held' = held /\ graves' = graves
                 /\ inner'[s] = v]_vars
    /\ [][status # "deadlock"]_vars

\* on the chain with z.add_receiver(y), x.send(0) has stored 0, armed y and
\* z, armed y again and stopped at the receivers Mutex of y
C20_Witness ==
    /\ status = "deadlock" /\ held = <<>>
    /\ receivers[1] = <<2>> /\ receivers[2] = <<3>> /\ receivers[3] = <<2>>
    /\ inner[1] = 0
    /\ dirty[2] = 2 /\ dirty[3] = 1

====
